---- MODULE Spec2Model ----
(***************************************************************************)
(* Model of watch_folder.py (WatchFolderSigner): the scan / stability      *)
(* check / claim / sign / route loop, together with the environment that   *)
(* drops, grows, removes and links files in the watch folder.              *)
(*                                                                         *)
(* The watcher is a single thread; every blocking point of its code        *)
(* (stat, sleep, subprocess.run, mkdir, shutil.move) is a separate step,   *)
(* so that the environment can act between any two of them.                *)
(***************************************************************************)
EXTENDS Integers, Sequences, FiniteSets, TLC

(* ---- bounds ---- *)
MaxFiles == 2      \* physical files that are ever dropped into the watch folder
MaxSize == 2       \* a file being written grows from size 1 up to MaxSize
MaxTime == 1       \* datetime.now() reads one of the seconds 1..MaxTime

Names == {"a", "b"}            \* file names (a.ipa, b.ipa) of the watch folder
None == "-"
DestNames == Names \X (0..MaxTime)   \* <<stem, 0>> = stem.ipa, <<stem, t>> = stem_<t>.ipa
Absent == -1
OldProcessed == -2   \* a.ipa left in the processed folder by an earlier run
OldFailed == -3      \* a.ipa left in the failed folder by an earlier run
MovedLink == -4      \* a symbolic link that was moved into a folder
NotExited == -1      \* the exit status of a process that still runs

VARIABLES
    processed_folder,   \* TRUE iff a processed folder is configured
    failed_folder,      \* TRUE iff a failed folder is configured
    watch,              \* directory entries of the watch folder
    procDir,            \* contents of the processed folder: DestNames -> id or Absent
    failDir,            \* contents of the failed folder
    processed_files,    \* the claim set
    pc,                 \* position of the watcher thread
    todo,               \* ipa_files still to be iterated by scan_and_process
    file_size_before,   \* first size reading of the current candidate
    abs_ipa_path,       \* sign_ipa: the claimed path of the current job
    dest,               \* move_file: "processed" or "failed"
    abs_file_path,      \* move_file: the resolved source path
    dest_path,          \* move_file: the chosen destination name
    log,                \* log lines written by the current job
    \* ---- history (never read by the watcher) ----
    nextId,             \* number of physical files dropped so far
    removedExt,         \* ids of files removed by the environment
    filter_result,      \* why the latest filtering step rejected its candidate
    pending,            \* candidates that passed filtering and are not yet dispatched
    dispatched,         \* candidates a job was started on in this cycle
    job,                \* the current job: file id, outcome, routing result
    success_released,   \* ids of files in the folder whose last job was a success left in place
    missing_before,     \* an earlier job of this cycle found no executable
    \* ---- the process ----
    exit_code,          \* NotExited while the process runs, else its exit status
    sign_tools_at_start, \* run() found the executable at startup
    signers,            \* number of live signer child processes
    \* ---- main(): one option on its way from the inputs to the constructor ----
    main_pc,            \* position in main()
    option,             \* the option looked at
    cli,                \* what the command line gives for it
    config_file,        \* what the file named by -c holds for it
    args_value,         \* args.<option> after parse_args()
    config,             \* the dictionary load_config() returned, at this key
    effective,          \* the value passed to WatchFolderSigner
    \* ---- sign_ipa(): the command of one job ----
    cmd_pc,             \* position in lines 154-195
    sign_tools,         \* the executable find_sign_tools() returned
    ipa,                \* abs_ipa_path: [dir, name]
    profile,            \* self.profile
    sign_args,          \* self.sign_args
    bundle_id,          \* self.bundle_id
    output_folder,      \* self.output_folder
    output_path,        \* the local of line 156
    cmd                 \* the argument list

mainVars == <<main_pc, option, cli, config_file, args_value, config, effective>>
cmdVars == <<cmd_pc, sign_tools, ipa, profile, sign_args, bundle_id,
             output_folder, output_path, cmd>>
cfgVars == <<processed_folder, failed_folder, mainVars, cmdVars>>
fsVars == <<watch, procDir, failDir>>
loopVars == <<pc, todo, file_size_before>>
jobVars == <<abs_ipa_path, dest, abs_file_path, dest_path, log>>
runVars == <<exit_code, sign_tools_at_start, signers, missing_before>>
histVars == <<nextId, removedExt, filter_result, pending, dispatched, job, success_released>>
vars == <<cfgVars, fsVars, loopVars, jobVars, processed_files, histVars, runVars>>

(* ---- directory entries ---- *)
NoEntry == [kind |-> "none", id |-> 0, size |-> 0, target |-> None]
FileEntry(i, s) == [kind |-> "file", id |-> i, size |-> s, target |-> None]
LinkEntry(t) == [kind |-> "link", id |-> 0, size |-> 0, target |-> t]

\* Path.resolve(): follows a symbolic link to its target
Resolve(p) == IF watch[p].kind = "link" THEN watch[p].target ELSE p

\* Path.exists() / is_file(): follows links, a dangling link does not exist
Exists(p) == watch[Resolve(p)].kind = "file"

\* Path.stat().st_size (follows links)
StatSize(p) == watch[Resolve(p)].size

\* id of the physical file a path currently names (0 if none)
FileIdAt(p) == IF Exists(p) THEN watch[Resolve(p)].id ELSE 0

NoJob == [fid |-> 0, again |-> FALSE, tools |-> "none", outcome |-> "none",
          route |-> "none"]

EmptyDir == [d \in DestNames |-> Absent]

InWatch(i) == \E n \in Names : watch[n].kind = "file" /\ watch[n].id = i
InProcessed(i) == \E d \in DestNames : procDir[d] = i
InFailed(i) == \E d \in DestNames : failDir[d] = i

(* ---- Python values ---- *)
PyNone == [t |-> "none"]
Str(x) == [t |-> "str", s |-> x]
Num(x) == [t |-> "num", n |-> x]
Missing == [t |-> "missing"]     \* no such argument on the command line / key in the file

\* bool(v)
Truthy(v) ==
    CASE v.t = "str" -> v.s # ""
      [] v.t = "num" -> v.n # 0
      [] OTHER -> FALSE

\* main() is not under way
MainIdle ==
    /\ main_pc = "off"
    /\ option = None
    /\ cli = Missing /\ config_file = Missing
    /\ args_value = PyNone /\ config = Missing /\ effective = PyNone

\* no command is being built
CmdIdle ==
    /\ cmd_pc = "off"
    /\ sign_tools = <<>> /\ ipa = [dir |-> <<>>, name |-> <<>>]
    /\ profile = <<>> /\ sign_args = Str("") /\ bundle_id = PyNone
    /\ output_folder = <<>> /\ output_path = <<>> /\ cmd = <<>>

\* the state of a WatchFolderSigner after construction, before run()
WatcherInit ==
    /\ processed_folder \in BOOLEAN
    /\ failed_folder \in BOOLEAN
    /\ watch = [n \in Names |-> NoEntry]
    /\ procDir = [EmptyDir EXCEPT ![<<"a", 0>>] = OldProcessed]
    /\ failDir = [EmptyDir EXCEPT ![<<"a", 0>>] = OldFailed]
    /\ processed_files = {}
    /\ pc = "start"
    /\ todo = <<>>
    /\ file_size_before = 0
    /\ abs_ipa_path = None
    /\ dest = None
    /\ abs_file_path = None
    /\ dest_path = <<None, 0>>
    /\ log = {}
    /\ nextId = 0
    /\ removedExt = {}
    /\ filter_result = None
    /\ pending = {}
    /\ dispatched = {}
    /\ job = NoJob
    /\ success_released = {}
    /\ missing_before = FALSE
    /\ exit_code = NotExited
    /\ sign_tools_at_start = FALSE
    /\ signers = 0

Init == WatcherInit /\ MainIdle /\ CmdIdle

(***************************************************************************)
(* Environment                                                             *)
(*                                                                         *)
(* The watcher looks at the watch folder at six places: the listing of     *)
(* line 302, the two stat() calls, the resolve() of sign_ipa, and the      *)
(* resolve()/exists() and the shutil.move of move_file.  A change of a     *)
(* directory entry is interleaved right before a step that reads that      *)
(* entry; made any earlier it commutes with the watcher's steps in         *)
(* between, which neither read nor write the entry.  The folder may hold   *)
(* files before the process starts.                                        *)
(***************************************************************************)
\* the one name of the folder that is ever a symbolic link
LinkName == "b"

\* the entries a file-system call on path p reads: p, and what p may link to
Touched(p) == IF p = LinkName THEN Names ELSE {p}

\* the watcher's next file-system call reads entry n
Observes(n) ==
    \/ pc \in {"start", "idle"}
    \/ pc \in {"loop", "stable", "sign"} /\ todo # <<>> /\ n \in Touched(Head(todo))
    \/ pc = "check" /\ n \in Touched(abs_ipa_path)
    \/ pc = "move" /\ n \in Touched(abs_ipa_path) \cup Touched(abs_file_path)

\* a producer starts writing a new file into the watch folder
Drop(n) ==
    /\ Observes(n)
    /\ watch[n].kind = "none"
    /\ nextId < MaxFiles
    /\ nextId' = nextId + 1
    /\ watch' = [watch EXCEPT ![n] = FileEntry(nextId + 1, 1)]
    /\ UNCHANGED <<cfgVars, runVars, procDir, failDir, loopVars, jobVars,
                   processed_files, removedExt, filter_result, pending,
                   dispatched, job, success_released>>

\* the producer appends to the file between the two size readings (the sizes
\* are only ever compared with each other, so growth at any other time shows
\* in both readings alike)
Grow(n) ==
    /\ pc = "stable"
    /\ n = Resolve(Head(todo))
    /\ watch[n].kind = "file"
    /\ watch[n].size < MaxSize
    /\ watch' = [watch EXCEPT ![n].size = @ + 1]
    /\ UNCHANGED <<cfgVars, runVars, procDir, failDir, loopVars, jobVars,
                   processed_files, histVars>>

\* somebody removes an entry of the watch folder out-of-band
Remove(n) ==
    /\ Observes(n)
    /\ watch[n].kind # "none"
    /\ watch' = [watch EXCEPT ![n] = NoEntry]
    /\ removedExt' = IF watch[n].kind = "file" THEN removedExt \cup {watch[n].id}
                     ELSE removedExt
    /\ success_released' = success_released \ {watch[n].id}
    /\ UNCHANGED <<cfgVars, runVars, procDir, failDir, loopVars, jobVars,
                   processed_files, nextId, filter_result, pending,
                   dispatched, job>>

\* somebody creates n.ipa as a symbolic link to another file of the folder
MakeLink(n, t) ==
    /\ Observes(n)
    /\ n = LinkName /\ t # n
    /\ watch[n].kind = "none"
    /\ watch[t].kind # "link"
    /\ watch' = [watch EXCEPT ![n] = LinkEntry(t)]
    /\ UNCHANGED <<cfgVars, runVars, procDir, failDir, loopVars, jobVars,
                   processed_files, histVars>>

(***************************************************************************)
(* run() and scan_and_process()                                            *)
(***************************************************************************)
\* find_sign_tools(): whether the search finds an executable is up to the
\* file system at the moment of the call
FindResults == BOOLEAN

\* a startup that enters the loop whatever the search returned
StartupPc_EnterAnyway(found) == "idle"

\* lines 330-345: raise RuntimeError unless the executable was found
StartupPc(found) == IF found THEN "idle" ELSE "aborted"

\* a handler of KeyboardInterrupt that raises it again
ExitCodeAt_InterruptRaised(p) ==
    IF p \in {"aborted", "crashed", "stopped"} THEN 1 ELSE NotExited

\* lines 345, 361-365, 484: an exception that leaves main() ends the process
\* with status 1, a return from run() with status 0
ExitCodeAt(p) ==
    CASE p \in {"aborted", "crashed"} -> 1
      [] p = "stopped" -> 0
      [] OTHER -> NotExited

\* lines 329-345: the eager resolution at startup
RunStart ==
    /\ pc = "start"
    /\ \E found \in FindResults :
         /\ sign_tools_at_start' = found
         /\ pc' = StartupPc(found)
         /\ exit_code' = ExitCodeAt(pc')
         /\ log' = IF found THEN log ELSE {"ERROR not found at startup"}
    /\ UNCHANGED <<cfgVars, fsVars, todo, file_size_before, abs_ipa_path,
                   dest, abs_file_path, dest_path,
                   processed_files, histVars, signers, missing_before>>

\* the entries glob("*.ipa") yields that pass is_file()
Listed == {n \in Names : watch[n].kind # "none" /\ Exists(n)}

\* every order in which glob() may yield them, each resolved
Listings ==
    LET k == Cardinality(Listed)
        orders == {s \in [1..k -> Listed] : \A i, j \in 1..k : i # j => s[i] # s[j]}
    IN {[i \in 1..k |-> Resolve(s[i])] : s \in orders}

ScanStart ==
    /\ pc = "idle"
    /\ \E s \in Listings : todo' = s
    /\ pc' = "loop"
    /\ UNCHANGED <<cfgVars, runVars, fsVars, file_size_before, jobVars,
                   processed_files, histVars>>

\* a loop that stays on its candidate
Rest_SameCandidate(s) == s

\* line 305: the for loop goes on to the next element of ipa_files
Rest(s) == Tail(s)

LoopDone ==
    /\ pc = "loop"
    /\ todo = <<>>
    /\ pc' = "idle"
    /\ filter_result' = None
    /\ pending' = {}
    /\ dispatched' = {}
    /\ missing_before' = FALSE
    /\ UNCHANGED <<cfgVars, exit_code, sign_tools_at_start, signers, fsVars,
                   todo, file_size_before, jobVars,
                   processed_files, nextId, removedExt, job, success_released>>

\* line 307: if ipa_file in self.processed_files: continue
SkipClaimed ==
    /\ pc = "loop"
    /\ todo # <<>>
    /\ Head(todo) \in processed_files
    /\ todo' = Rest(todo)
    /\ filter_result' = None
    /\ UNCHANGED <<cfgVars, runVars, fsVars, pc, file_size_before, jobVars,
                   processed_files, nextId, removedExt, pending, dispatched,
                   job, success_released>>

\* line 312: the first size reading; OSError if the file is gone
StatBefore ==
    /\ pc = "loop"
    /\ todo # <<>>
    /\ Head(todo) \notin processed_files
    /\ IF Exists(Head(todo))
       THEN /\ file_size_before' = StatSize(Head(todo))
            /\ pc' = "stable"
            /\ filter_result' = None
            /\ UNCHANGED todo
       ELSE /\ todo' = Rest(todo)
            /\ filter_result' = "vanished"
            /\ UNCHANGED <<pc, file_size_before>>
    /\ UNCHANGED <<cfgVars, runVars, fsVars, jobVars, processed_files,
                   nextId, removedExt, pending, dispatched, job,
                   success_released>>

\* a stability check that accepts every file
SizeStable_Always(before, after) == TRUE

\* line 316: the file is stable iff the two readings are equal
SizeStable(before, after) == before = after

\* lines 313-321: sleep 0.5s, second reading, compare
StatAfter ==
    /\ pc = "stable"
    /\ IF Exists(Head(todo)) /\ SizeStable(file_size_before, StatSize(Head(todo)))
       THEN /\ pc' = "sign"
            /\ pending' = pending \cup {Head(todo)}
            /\ UNCHANGED <<todo, filter_result>>
       ELSE /\ pc' = "loop"
            /\ todo' = Rest(todo)
            /\ filter_result' = IF Exists(Head(todo)) THEN "grew" ELSE "vanished"
            /\ UNCHANGED pending
    /\ file_size_before' = 0
    /\ UNCHANGED <<cfgVars, runVars, fsVars, jobVars, processed_files,
                   nextId, removedExt, dispatched, job, success_released>>

(***************************************************************************)
(* sign_ipa()                                                              *)
(***************************************************************************)
\* a claim that is not recorded
Claim_NotRecorded(S, p) == S

\* line 152: self.processed_files.add(abs_ipa_path)
Claim(S, p) == S \cup {p}

\* a release that leaves the path in the set
Discard_Kept(S, p) == S

\* self.processed_files.discard(p)
Discard(S, p) == S \ {p}

\* lines 146-152: resolve, return False if claimed, else log and claim
SignIpa ==
    /\ pc = "sign"
    /\ LET abs == Resolve(Head(todo)) IN
       IF abs \in processed_files
       THEN /\ pc' = "loop"
            /\ todo' = Rest(todo)
            /\ UNCHANGED <<processed_files, abs_ipa_path, log, pending,
                           dispatched, job, success_released>>
       ELSE /\ pc' = "find"
            /\ processed_files' = Claim(processed_files, abs)
            /\ abs_ipa_path' = abs
            /\ log' = {"Processing"}
            /\ pending' = pending \ {Head(todo)}
            /\ dispatched' = dispatched \cup {Head(todo)}
            /\ job' = [fid |-> FileIdAt(abs),
                       again |-> FileIdAt(abs) \in success_released,
                       tools |-> "none", outcome |-> "none", route |-> "none"]
            /\ success_released' = success_released \ {FileIdAt(abs)}
            /\ UNCHANGED todo
    /\ UNCHANGED <<cfgVars, runVars, fsVars, file_size_before, dest,
                   abs_file_path, dest_path, nextId, removedExt,
                   filter_result>>

\* every finished job routed to the failed folder
DestOf_AlwaysFailed(outcome) == "failed"

\* the folder a finished job is routed to: processed on success, failed otherwise
DestOf(outcome) == IF outcome = "success" THEN "processed" ELSE "failed"

\* lines 210, 221, 230, 238, 176: is that folder configured
FolderSet(outcome) ==
    IF DestOf(outcome) = "processed" THEN processed_folder ELSE failed_folder

\* what the job record says about the search for the executable
ToolsOf(outcome) == IF outcome = "missing" THEN "missing" ELSE "found"

\* a signer whose end leaves the child process behind
Reaped_Leaked(n) == n

\* lines 200-205: subprocess.run returns after the child has exited, and
\* kills and reaps it before raising TimeoutExpired
Reaped(n) == n - 1

\* the tail of every branch of sign_ipa: log, then move_file or discard
Finish(outcome, lines) ==
    /\ log' = log \cup lines
    /\ signers' = IF pc = "running" THEN Reaped(signers) ELSE signers
    /\ missing_before' = (missing_before \/ outcome = "missing")
    /\ IF FolderSet(outcome)
       THEN /\ pc' = "mkdir"
            /\ dest' = DestOf(outcome)
            /\ job' = [job EXCEPT !.outcome = outcome, !.tools = ToolsOf(outcome)]
            /\ UNCHANGED <<processed_files, success_released>>
       ELSE /\ pc' = "ret"
            /\ processed_files' = Discard(processed_files, abs_ipa_path)
            /\ job' = [job EXCEPT !.outcome = outcome, !.tools = ToolsOf(outcome),
                                  !.route = "released"]
            /\ success_released' =
                 IF outcome = "success" THEN success_released \cup ({job.fid} \ {0})
                 ELSE success_released
            /\ UNCHANGED dest
    /\ UNCHANGED <<cfgVars, exit_code, sign_tools_at_start, fsVars, todo,
                   file_size_before,
                   abs_ipa_path, abs_file_path, dest_path, nextId, removedExt,
                   filter_result, pending, dispatched>>

\* a job that goes on as if the executable of the startup check were there
Usable_AsAtStartup(found) == sign_tools_at_start

\* line 160: if not sign_tools
Usable(found) == found

\* lines 159-180: resolve the executable for this job
FindSignTools ==
    /\ pc = "find"
    /\ \E found \in FindResults :
       IF Usable(found)
       THEN /\ pc' = "spawn"
            /\ job' = [job EXCEPT !.tools = IF found THEN "found" ELSE "missing"]
            /\ UNCHANGED <<cfgVars, runVars, fsVars, todo, file_size_before,
                           jobVars, processed_files, nextId, removedExt,
                           filter_result, pending, dispatched, success_released>>
       ELSE Finish("missing", {"ERROR executable not found"})

\* lines 199-205, 235-242: subprocess.run starts the signer or raises
Spawn ==
    /\ pc = "spawn"
    /\ \E started \in BOOLEAN :
       IF started
       THEN /\ pc' = "running"
            /\ log' = log \cup {"Running"}
            /\ signers' = signers + 1
            /\ UNCHANGED <<cfgVars, exit_code, sign_tools_at_start,
                           missing_before, fsVars, todo, file_size_before,
                           abs_ipa_path, dest, abs_file_path, dest_path,
                           processed_files, histVars>>
       ELSE Finish("error", {"Running", "ERROR signing"})

\* a non-zero exit that logs stderr only
FailureLines_StderrOnly == {"ERROR failed stderr"}

\* lines 218-219: what is logged for a non-zero exit
FailureLines == {"ERROR failed stderr", "ERROR output stdout"}

\* lines 207-225: the signer exits
SignerExit ==
    /\ pc = "running"
    /\ \E returncode \in {0, 1} :
       IF returncode = 0
       THEN Finish("success", {"Successfully signed"})
       ELSE Finish("failure", FailureLines)

\* lines 227-234: the 1800 s timeout expires
SignerTimeout ==
    /\ pc = "running"
    /\ Finish("timeout", {"ERROR timed out"})

(***************************************************************************)
(* move_file()                                                             *)
(***************************************************************************)
Dir(d) == IF d = "processed" THEN procDir ELSE failDir

\* the job is over: record how it was routed
Routed(r) ==
    /\ pc' = "ret"
    /\ job' = [job EXCEPT !.route = r]

\* lines 256-260: dest_folder.mkdir(parents=True, exist_ok=True)
MoveMkdir ==
    /\ pc = "mkdir"
    /\ \E created \in BOOLEAN :
       IF created
       THEN /\ pc' = "check"
            /\ UNCHANGED <<log, job>>
       ELSE /\ log' = log \cup {"ERROR create destination"}
            /\ Routed("mkdir_failed")
    /\ UNCHANGED <<cfgVars, runVars, fsVars, todo, file_size_before,
                   abs_ipa_path, dest, abs_file_path, dest_path,
                   processed_files, nextId, removedExt, filter_result,
                   pending, dispatched, success_released>>

\* lines 272-276: the destination name, with a timestamp if the plain name is taken
DestPath(dir, name, t) ==
    IF dir[<<name, 0>>] # Absent THEN <<name, t>> ELSE <<name, 0>>

\* lines 264-276: resolve the source, check that it exists, choose dest_path
MoveCheck ==
    /\ pc = "check"
    /\ LET abs == Resolve(abs_ipa_path) IN
       IF ~Exists(abs)
       THEN /\ log' = log \cup {"WARN no longer exists"}
            /\ processed_files' = Discard(processed_files, abs)
            /\ Routed("vanished")
            /\ UNCHANGED <<abs_file_path, dest_path>>
       ELSE \E t \in 1..MaxTime :   \* datetime.now(): local wall-clock time
            /\ abs_file_path' = abs
            /\ dest_path' = DestPath(Dir(dest), abs, t)
            /\ pc' = "move"
            /\ UNCHANGED <<log, processed_files, job>>
    /\ UNCHANGED <<cfgVars, runVars, fsVars, todo, file_size_before,
                   abs_ipa_path, dest, nextId, removedExt, filter_result,
                   pending, dispatched, success_released>>

\* what arrives in the folder when a directory entry is moved
MovedId(e) == IF e.kind = "link" THEN MovedLink ELSE e.id

\* shutil.move onto dest_path: os.rename replaces whatever has that name
Renamed(dir, d, i) == [dir EXCEPT ![d] = i]

\* lines 278-293: shutil.move and the three ways it ends
ShutilMove ==
    /\ pc = "move"
    /\ IF watch[abs_file_path].kind = "none"
       THEN \* FileNotFoundError
            /\ log' = log \cup {"WARN not found"}
            /\ processed_files' = Discard(processed_files, Resolve(abs_ipa_path))
            /\ Routed("vanished")
            /\ UNCHANGED fsVars
       ELSE \E moved \in BOOLEAN :
            IF moved
            THEN /\ watch' = [watch EXCEPT ![abs_file_path] = NoEntry]
                 /\ procDir' = IF dest = "processed"
                               THEN Renamed(procDir, dest_path, MovedId(watch[abs_file_path]))
                               ELSE procDir
                 /\ failDir' = IF dest = "failed"
                               THEN Renamed(failDir, dest_path, MovedId(watch[abs_file_path]))
                               ELSE failDir
                 /\ log' = log \cup {"Moved"}
                 /\ processed_files' = Discard(processed_files, abs_file_path)
                 /\ Routed("moved")
            ELSE \* any other exception
                 /\ log' = log \cup {"ERROR failed to move"}
                 /\ processed_files' = Discard(processed_files, Resolve(abs_ipa_path))
                 /\ Routed("move_failed")
                 /\ UNCHANGED fsVars
    /\ UNCHANGED <<cfgVars, runVars, todo, file_size_before, abs_ipa_path,
                   dest, abs_file_path, dest_path, nextId, removedExt, filter_result,
                   pending, dispatched, success_released>>

\* a loop that gives up when a job reports failure
AfterJob_StopOnFailure(signed) == IF signed THEN "loop" ELSE "crashed"

\* line 324: the value sign_ipa returns is not looked at
AfterJob(signed) == "loop"

\* sign_ipa returns to the loop of scan_and_process
JobReturn ==
    /\ pc = "ret"
    /\ pc' = AfterJob(job.outcome = "success")
    /\ exit_code' = ExitCodeAt(pc')
    /\ todo' = Rest(todo)
    /\ abs_ipa_path' = None
    /\ dest' = None
    /\ abs_file_path' = None
    /\ dest_path' = <<None, 0>>
    /\ log' = {}
    /\ job' = NoJob
    /\ UNCHANGED <<cfgVars, sign_tools_at_start, signers, missing_before,
                   fsVars, file_size_before, processed_files,
                   nextId, removedExt, filter_result, pending, dispatched,
                   success_released>>

(***************************************************************************)
(* The ways the loop of run() ends                                         *)
(***************************************************************************)
\* where the thread blocks: the poll sleep, the 0.5 s sleep, the signer wait
Blocking == {"idle", "stable", "running"}

\* lines 361-362: Ctrl+C raises KeyboardInterrupt in the blocked thread; no
\* handler of sign_ipa, move_file or scan_and_process catches it (they catch
\* Exception and OSError), subprocess.run kills its child before passing it
\* on, and run() logs and returns
Interrupt ==
    /\ pc \in Blocking
    /\ pc' = "stopped"
    /\ log' = log \cup {"Stopped by user"}
    /\ exit_code' = ExitCodeAt(pc')
    /\ signers' = IF pc = "running" THEN Reaped(signers) ELSE signers
    /\ UNCHANGED <<cfgVars, sign_tools_at_start, missing_before, fsVars, todo,
                   file_size_before, abs_ipa_path, dest, abs_file_path,
                   dest_path, processed_files, histVars>>

\* lines 302, 363-365: the listing of the watch folder raises (an I/O error
\* of the directory); run() logs the error and raises it again
ScanError ==
    /\ pc = "idle"
    /\ pc' = "crashed"
    /\ log' = log \cup {"ERROR Unexpected error"}
    /\ exit_code' = ExitCodeAt(pc')
    /\ UNCHANGED <<cfgVars, sign_tools_at_start, signers, missing_before,
                   fsVars, todo, file_size_before, abs_ipa_path, dest,
                   abs_file_path, dest_path, processed_files, histVars>>

Next ==
    \/ \E n \in Names : Drop(n)
    \/ \E n \in Names : Grow(n)
    \/ \E n \in Names : Remove(n)
    \/ \E n, t \in Names : MakeLink(n, t)
    \/ RunStart
    \/ ScanStart
    \/ LoopDone
    \/ SkipClaimed
    \/ StatBefore
    \/ StatAfter
    \/ SignIpa
    \/ FindSignTools
    \/ Spawn
    \/ SignerExit
    \/ SignerTimeout
    \/ MoveMkdir
    \/ MoveCheck
    \/ ShutilMove
    \/ JobReturn
    \/ Interrupt
    \/ ScanError

Spec == Init /\ [][Next]_vars

\* the steps of the watcher's one thread, and the end of a signer invocation
\* (the child exits, or the timeout of line 204 expires)
WatcherStep ==
    \/ RunStart \/ ScanStart \/ LoopDone \/ SkipClaimed \/ StatBefore
    \/ StatAfter \/ SignIpa \/ FindSignTools \/ Spawn \/ SignerExit
    \/ SignerTimeout \/ MoveMkdir \/ MoveCheck \/ ShutilMove \/ JobReturn

\* Init after one file has come and gone before the process was started
\* (the state Drop and Remove lead to from Init)
LiveInit ==
    /\ processed_folder \in BOOLEAN
    /\ failed_folder \in BOOLEAN
    /\ watch = [n \in Names |-> NoEntry]
    /\ procDir = [EmptyDir EXCEPT ![<<"a", 0>>] = OldProcessed]
    /\ failDir = [EmptyDir EXCEPT ![<<"a", 0>>] = OldFailed]
    /\ processed_files = {}
    /\ pc = "start"
    /\ todo = <<>>
    /\ file_size_before = 0
    /\ abs_ipa_path = None /\ dest = None /\ abs_file_path = None
    /\ dest_path = <<None, 0>>
    /\ log = {}
    /\ nextId = 1 /\ removedExt = {1}
    /\ filter_result = None /\ pending = {} /\ dispatched = {}
    /\ job = NoJob /\ success_released = {} /\ missing_before = FALSE
    /\ exit_code = NotExited /\ sign_tools_at_start = FALSE /\ signers = 0
    /\ MainIdle /\ CmdIdle

\* the thread is never held up for good: every sleep and every wait is bounded
LiveSpec == LiveInit /\ [][Next]_vars /\ WF_vars(WatcherStep)

(***************************************************************************)
(* main(): command line, configuration file, and what the constructor gets *)
(***************************************************************************)
Options == {"watch_folder", "output_folder", "profile", "sign_args",
            "bundle_id", "processed_folder", "failed_folder", "log_file",
            "poll_interval", "sign_tools_path"}

\* lines 399-445: what parse_args() stores for an argument that is not given
ArgDefault(o) ==
    CASE o = "sign_args" -> Str("")
      [] o = "poll_interval" -> Num(2)
      [] OTHER -> PyNone

\* lines 455-464: the second argument of config.get()
GetDefault(o) ==
    CASE o = "sign_args" -> Str("")
      [] o = "poll_interval" -> Num(2)
      [] OTHER -> PyNone

\* lines 20-32: the default of the constructor's parameter
BuiltinDefault(o) ==
    CASE o = "sign_args" -> Str("")
      [] o = "poll_interval" -> Num(2)
      [] OTHER -> PyNone

\* values a command line may give (-i has type=float)
CliInputs(o) ==
    IF o = "poll_interval" THEN {Missing, Num(0), Num(2), Num(5)}
    ELSE {Missing, Str(""), Str("cli")}

\* values the JSON file may hold under the key
FileInputs(o) ==
    IF o = "poll_interval" THEN {Missing, Num(1), Num(7)}
    ELSE {Missing, Str(""), Str("file")}

\* dict.get(key, default)
ConfigGet(c, default) == IF c = Missing THEN default ELSE c

\* a or b
PyOr(a, b) == IF Truthy(a) THEN a ELSE b

\* lines 455-464: args.<option> or config.get("<option>"[, default])
Merged(o, a, c) == PyOr(a, ConfigGet(c, GetDefault(o)))

Required == {"watch_folder", "output_folder", "profile"}

MainInit ==
    /\ main_pc = "args"
    /\ option \in Options
    /\ cli \in CliInputs(option)
    /\ config_file \in FileInputs(option)
    /\ args_value = PyNone /\ config = Missing /\ effective = PyNone

watcherVars == <<processed_folder, failed_folder, fsVars, loopVars, jobVars,
                 processed_files, histVars, runVars, cmdVars>>

\* line 447: args = parser.parse_args()
ParseArgs ==
    /\ main_pc = "args"
    /\ args_value' = IF cli = Missing THEN ArgDefault(option) ELSE cli
    /\ main_pc' = "parsed"
    /\ UNCHANGED <<option, cli, config_file, config, effective, watcherVars>>

\* lines 450-452, 368-379: the dictionary is empty without -c, and when the
\* file does not exist or cannot be parsed
LoadConfig ==
    /\ main_pc = "parsed"
    /\ \E loaded \in BOOLEAN :
         config' = IF loaded THEN config_file ELSE Missing
    /\ main_pc' = "loaded"
    /\ UNCHANGED <<option, cli, config_file, args_value, effective, watcherVars>>

\* lines 455-464
Merge ==
    /\ main_pc = "loaded"
    /\ effective' = Merged(option, args_value, config)
    /\ main_pc' = "merged"
    /\ UNCHANGED <<option, cli, config_file, args_value, config, watcherVars>>

\* lines 467-482: parser.error() if a required option is empty, else construct
Validate ==
    /\ main_pc = "merged"
    /\ main_pc' = IF option \in Required /\ ~Truthy(effective)
                  THEN "usage_error" ELSE "constructed"
    /\ UNCHANGED <<option, cli, config_file, args_value, config, effective,
                   watcherVars>>

MainNext == ParseArgs \/ LoadConfig \/ Merge \/ Validate

\* main() is entered; no WatchFolderSigner has been run yet
MainStart == WatcherInit /\ CmdIdle /\ MainInit

MainSpec == MainStart /\ [][MainNext]_vars

(* ---- sign_ipa(), lines 154-195: the command of one job ----
   A text is a sequence of chunks, "+" on str is \o.  A file name is a text
   in which every "." is a chunk of its own; a path is the sequence of its
   components below the root. *)
Dot == "."
Sep == "/"

\* a str that is written as one chunk
Lit(x) == <<x>>

\* the texts of a sequence of texts, one after the other
RECURSIVE Concat(_)
Concat(ts) == IF ts = <<>> THEN <<>> ELSE Head(ts) \o Concat(Tail(ts))

\* str(path) of an absolute path
PathStr(p) ==
    IF p = <<>> THEN Lit(Sep)
    ELSE Concat([i \in 1..Len(p) |-> Lit(Sep) \o p[i]])

\* name.rfind("."), counted from 1; 0 when there is none
RFindDot(name) ==
    IF \E i \in 1..Len(name) : name[i] = Dot
    THEN CHOOSE i \in 1..Len(name) :
            /\ name[i] = Dot
            /\ \A j \in (i+1)..Len(name) : name[j] # Dot
    ELSE 0

\* an output name that keeps the extension of the source
Stem_WholeName(name) == name

\* PurePath.stem: the name without its last suffix; a name that begins with
\* its only dot, or ends with a dot, has no suffix
Stem(name) ==
    LET i == RFindDot(name)
    IN  IF 1 < i /\ i < Len(name) THEN SubSeq(name, 1, i - 1) ELSE name

\* the inputs of one job
ToolPaths == {<<Lit("opt"), Lit("SignTools")>>}
IpaDirs == {<<Lit("watch")>>, <<Lit("data"), Lit("in")>>}
IpaNames == {<<"app", Dot, "ipa">>, <<"app", Dot, "v2", Dot, "ipa">>,
             <<Dot, "ipa">>, <<"app">>, <<"app", Dot>>}
Profiles == {Lit("dev"), Lit("prod")}
SignArgs == {Str(""), Str("-a -d")}
BundleIds == {PyNone, Str(""), Str("com.example.app")}
OutputFolders == {<<>>, <<Lit("out")>>}

\* sign_ipa() has resolved the path, claimed it and found the executable
CmdInit ==
    /\ cmd_pc = "name"
    /\ sign_tools \in ToolPaths
    /\ ipa \in [dir : IpaDirs, name : IpaNames]
    /\ profile \in Profiles
    /\ sign_args \in SignArgs
    /\ bundle_id \in BundleIds
    /\ output_folder \in OutputFolders
    /\ output_path = <<>>
    /\ cmd = <<>>

\* lines 155-156: output_path = self.output_folder / (stem + "_signed.ipa")
OutputPath ==
    /\ cmd_pc = "name"
    /\ output_path' = output_folder \o <<Stem(ipa.name) \o Lit("_signed.ipa")>>
    /\ cmd_pc' = "build"
    /\ UNCHANGED <<sign_tools, ipa, profile, sign_args, bundle_id,
                   output_folder, cmd, mainVars, processed_folder,
                   failed_folder, fsVars, loopVars, jobVars, processed_files,
                   histVars, runVars>>

\* lines 183-189: the fixed part of the list
BuildCmd ==
    /\ cmd_pc = "build"
    /\ cmd' = <<PathStr(sign_tools),
                Lit("-headless"),
                Lit("-ipa"), PathStr(ipa.dir \o <<ipa.name>>),
                Lit("-profile"), profile,
                Lit("-output"), PathStr(output_path)>>
    /\ cmd_pc' = "args"
    /\ UNCHANGED <<sign_tools, ipa, profile, sign_args, bundle_id,
                   output_folder, output_path, mainVars, processed_folder,
                   failed_folder, fsVars, loopVars, jobVars, processed_files,
                   histVars, runVars>>

\* lines 191-192: if self.sign_args: cmd.extend(["-args", self.sign_args])
ExtendArgs ==
    /\ cmd_pc = "args"
    /\ cmd' = IF Truthy(sign_args)
              THEN cmd \o <<Lit("-args"), Lit(sign_args.s)>>
              ELSE cmd
    /\ cmd_pc' = "bundle"
    /\ UNCHANGED <<sign_tools, ipa, profile, sign_args, bundle_id,
                   output_folder, output_path, mainVars, processed_folder,
                   failed_folder, fsVars, loopVars, jobVars, processed_files,
                   histVars, runVars>>

\* lines 194-195: if self.bundle_id: cmd.extend(["-bundle-id", self.bundle_id])
ExtendBundleId ==
    /\ cmd_pc = "bundle"
    /\ cmd' = IF Truthy(bundle_id)
              THEN cmd \o <<Lit("-bundle-id"), Lit(bundle_id.s)>>
              ELSE cmd
    /\ cmd_pc' = "run"
    /\ UNCHANGED <<sign_tools, ipa, profile, sign_args, bundle_id,
                   output_folder, output_path, mainVars, processed_folder,
                   failed_folder, fsVars, loopVars, jobVars, processed_files,
                   histVars, runVars>>

CmdNext == OutputPath \/ BuildCmd \/ ExtendArgs \/ ExtendBundleId

\* sign_ipa() of a freshly constructed WatchFolderSigner reaches line 154
CmdStart == WatcherInit /\ MainIdle /\ CmdInit

CmdSpec == CmdStart /\ [][CmdNext]_vars

TypeOK ==
    /\ processed_files \subseteq Names
    /\ pc \in {"start", "aborted", "idle", "loop", "stable", "sign", "find",
               "spawn", "running", "mkdir", "check", "move", "ret",
               "stopped", "crashed"}
    /\ exit_code \in {NotExited, 0, 1}
    /\ sign_tools_at_start \in BOOLEAN
    /\ signers \in 0..1
    /\ missing_before \in BOOLEAN
    /\ nextId \in 0..MaxFiles

(***************************************************************************)
(* Properties                                                              *)
(***************************************************************************)
NonSuccess == {"failure", "timeout", "missing", "error"}

\* the job has been routed and sign_ipa is about to return
JobDone == pc = "ret"

\* the file the job was started on is still the one its path names or was
\* moved by the watcher: nobody removed it out-of-band
SourceKept == job.fid # 0 /\ job.fid \notin removedExt

\* the last candidate of the cycle has been handled
CycleEnd == pc = "loop" /\ todo = <<>>

DirNext(d) == IF d = "processed" THEN procDir' ELSE failDir'

\* C1: every job releases its claim: once a job has been routed its path is
\* not in processed_files, whatever the outcome and whether or not move_file
\* succeeded; hence the claim set is empty whenever the loop is idle.
C1_EveryJobReleasesItsClaim ==
    /\ JobDone => abs_ipa_path \notin processed_files
    /\ pc = "idle" => processed_files = {}

\* C2: when routing fails because the destination folder cannot be created
\* or the move errors, the source file stays in the watch folder and its path
\* is not left in processed_files, so that a later scan dispatches it again.
C2_FailedRoutingLeavesFileRetryable ==
    (JobDone /\ job.route \in {"mkdir_failed", "move_failed"} /\ SourceKept)
        => /\ InWatch(job.fid)
           /\ abs_ipa_path \notin processed_files
           /\ Resolve(abs_ipa_path) \notin processed_files

\* C3: a move never overwrites: every successful move puts the file under a
\* name that was free in the destination folder and leaves every file that
\* was already there in place.
C3_MoveNeverOverwrites ==
    [][(pc = "move" /\ pc' = "ret" /\ job'.route = "moved")
         => /\ Dir(dest)[dest_path] = Absent
            /\ \A d \in DestNames \ {dest_path} : DirNext(dest)[d] = Dir(dest)[d]]_vars

\* C4: no file is lost or duplicated: each physical file that appeared in the
\* watch folder and was not removed out-of-band is in exactly one of the
\* watch folder, the processed folder and the failed folder.
C4_EachFileInExactlyOnePlace ==
    \A i \in 1..nextId :
        i \notin removedExt =>
            /\ InWatch(i) \/ InProcessed(i) \/ InFailed(i)
            /\ ~(InWatch(i) /\ InProcessed(i))
            /\ ~(InWatch(i) /\ InFailed(i))
            /\ ~(InProcessed(i) /\ InFailed(i))

\* the file the head candidate names is one whose last job succeeded and
\* was left in place
HeadSuccessReleased ==
    /\ todo # <<>>
    /\ watch[Head(todo)].kind = "file"
    /\ watch[Head(todo)].id \in success_released

\* C5: a path that is in processed_files is never handed to the signer again
\* until it is removed: the scan skips it, sign_ipa returns without claiming,
\* resolving or spawning, and a job only ever starts on an unclaimed path,
\* which is claimed from then on, before the executable is resolved.
C5_ClaimedPathNotRedispatched ==
    /\ [](pc \in {"find", "spawn", "running"} => abs_ipa_path \in processed_files)
    /\ [][(pc = "loop" /\ todo # <<>> /\ todo' # todo
             /\ Head(todo) \in processed_files)
            => pc' = "loop" /\ UNCHANGED <<processed_files, jobVars, job, fsVars>>]_vars
    /\ [][(pc = "sign" /\ pc' # "sign" /\ Resolve(Head(todo)) \in processed_files)
            => pc' = "loop" /\ UNCHANGED <<processed_files, jobVars, job, fsVars>>]_vars
    /\ [][(pc # "find" /\ pc' = "find")
            => /\ abs_ipa_path' \notin processed_files
               /\ processed_files' = processed_files \cup {abs_ipa_path'}]_vars

\* C5 witness: sign_ipa is entered on a path that is claimed
C5_SignIpaMeetsClaimedPath ==
    pc = "sign" /\ Resolve(Head(todo)) \in processed_files

\* the scan meets a claimed path at the head of its list
ScanMeetsClaimedPath ==
    pc = "loop" /\ todo # <<>> /\ Head(todo) \in processed_files

\* C6 as stated: after a zero exit with a processed folder configured the
\* source file is in the processed folder, not in the watch folder, not in the
\* failed folder, and its path is not in processed_files.
C6_SuccessAlwaysInProcessed ==
    (JobDone /\ job.outcome = "success" /\ processed_folder /\ SourceKept)
        => /\ InProcessed(job.fid)
           /\ ~InWatch(job.fid)
           /\ ~InFailed(job.fid)
           /\ abs_ipa_path \notin processed_files

\* C6 (amended): after a zero exit with a processed folder configured the
\* source file is never in the failed folder, and if the move succeeded it is
\* in the processed folder, no longer in the watch folder, and its path is
\* not in processed_files.
C6_SuccessRouted ==
    (JobDone /\ job.outcome = "success" /\ processed_folder /\ SourceKept)
        => /\ ~InFailed(job.fid)
           /\ job.route # "released"
           /\ job.route = "moved"
                => /\ InProcessed(job.fid)
                   /\ ~InWatch(job.fid)
                   /\ abs_ipa_path \notin processed_files
           /\ job.route # "moved" => InWatch(job.fid) /\ ~InProcessed(job.fid)

C6_MovedToProcessed ==
    /\ JobDone /\ job.outcome = "success" /\ processed_folder /\ SourceKept
    /\ job.route = "moved" /\ InProcessed(job.fid)

\* C7 as stated: after a non-success outcome the source file is in the failed
\* folder (never the processed folder) if one is configured, else it is left
\* in the watch folder with its claim released; a non-zero exit logs stderr
\* and stdout.
C7_FailureAlwaysInFailed ==
    (JobDone /\ job.outcome \in NonSuccess /\ SourceKept)
        => /\ ~InProcessed(job.fid)
           /\ failed_folder => InFailed(job.fid)
           /\ ~failed_folder
                => InWatch(job.fid) /\ abs_ipa_path \notin processed_files
           /\ job.outcome = "failure"
                => {"ERROR failed stderr", "ERROR output stdout"} \subseteq log

\* C7 (amended): after a non-success outcome the source file is never in the
\* processed folder; with a failed folder configured it is in the failed
\* folder if the move succeeded and still in the watch folder otherwise;
\* with none configured it is left in the watch folder with its claim
\* released; a non-zero exit logs stderr and stdout.
C7_FailureRouted ==
    (JobDone /\ job.outcome \in NonSuccess /\ SourceKept)
        => /\ ~InProcessed(job.fid)
           /\ (failed_folder /\ job.route = "moved")
                => /\ InFailed(job.fid)
                   /\ ~InWatch(job.fid)
                   /\ abs_ipa_path \notin processed_files
           /\ (failed_folder /\ job.route # "moved")
                => InWatch(job.fid) /\ ~InFailed(job.fid)
           /\ ~failed_folder
                => /\ job.route = "released"
                   /\ InWatch(job.fid)
                   /\ ~InFailed(job.fid)
                   /\ abs_ipa_path \notin processed_files
           /\ job.outcome = "failure"
                => {"ERROR failed stderr", "ERROR output stdout"} \subseteq log

C7_NonZeroExitMovedToFailed ==
    /\ JobDone /\ job.outcome = "failure" /\ failed_folder /\ SourceKept
    /\ job.route = "moved" /\ InFailed(job.fid)

\* what a rejected candidate must leave alone
FilterFrame ==
    UNCHANGED <<processed_files, fsVars, jobVars, job, dispatched, pending,
                success_released>>

\* C8: a candidate that fails filtering has no side effects: when its second
\* size reading differs from the first, or it has disappeared at either
\* reading, the scan moves on to the next candidate without claiming,
\* resolving, spawning, moving or logging anything; the next scan lists it
\* again if it is still there.
C8_RejectedCandidateHasNoSideEffects ==
    /\ [][(pc = "stable" /\ pc' \notin {"stable", "stopped"}
             /\ (~Exists(Head(todo)) \/ StatSize(Head(todo)) # file_size_before))
            => pc' = "loop" /\ todo' = Tail(todo) /\ FilterFrame]_vars
    /\ [][(pc = "loop" /\ todo # <<>> /\ todo' # todo
             /\ Head(todo) \notin processed_files /\ ~Exists(Head(todo)))
            => pc' = "loop" /\ todo' = Tail(todo) /\ FilterFrame]_vars
    /\ [](filter_result # None => pc = "loop" /\ job = NoJob /\ log = {})
    /\ [][(pc = "idle" /\ pc' = "loop")
            => \A n \in Names :
                 watch[n].kind = "file" => \E i \in 1..Len(todo') : todo'[i] = n]_vars

C8_GrowingFileRejected == filter_result = "grew"

\* C9: within one scan cycle every file that is listed, unclaimed and
\* size-stable across the two readings is dispatched exactly once: no
\* candidate is dispatched twice, and none that passed filtering is left
\* undispatched when the cycle ends.
C9_DispatchedExactlyOncePerCycle ==
    /\ [][(pc # "find" /\ pc' = "find") => Head(todo) \notin dispatched]_vars
    /\ [](CycleEnd => pending = {})

FoldersUntouched ==
    /\ procDir = [EmptyDir EXCEPT ![<<"a", 0>>] = OldProcessed]
    /\ failDir = [EmptyDir EXCEPT ![<<"a", 0>>] = OldFailed]

\* C11: if the signer executable cannot be resolved at startup, run() aborts
\* with an error before the first scan: the loop is never entered, no file is
\* examined, claimed, signed or moved, and the process ends non-zero.
C11_StartupFailureAborts ==
    /\ []((pc # "start" /\ ~sign_tools_at_start)
            => /\ pc = "aborted"
               /\ exit_code \notin {NotExited, 0}
               /\ log = {"ERROR not found at startup"}
               /\ todo = <<>> /\ file_size_before = 0
               /\ processed_files = {} /\ dispatched = {} /\ pending = {}
               /\ job = NoJob /\ signers = 0
               /\ FoldersUntouched
               /\ \A i \in 1..nextId : i \notin removedExt => InWatch(i))
    /\ [][pc = "aborted" => pc' = "aborted"]_vars

\* C11 witness: the process has aborted at startup with a file waiting in
\* the watch folder
C11_AbortedWithFileWaiting ==
    pc = "aborted" /\ \E n \in Names : watch[n].kind = "file"

\* C12: the executable is resolved again once per job, after the claim and
\* before invocation; if resolution fails at job time the job ends as
\* ExecutableMissing with no signer process spawned, and a job started after
\* the executable becomes resolvable (even though it was missing for an
\* earlier job) does invoke the signer.
C12_ExecutableResolvedPerJob ==
    /\ [](pc = "find" => abs_ipa_path \in processed_files /\ job.tools = "none")
    /\ [][(pc # "find" /\ pc' = "find") => pc = "sign"]_vars
    /\ [][(pc # "spawn" /\ pc' = "spawn") => pc = "find"]_vars
    /\ [][(pc # "running" /\ pc' = "running") => pc = "spawn"]_vars
    /\ []((pc \in {"spawn", "running"} \/ signers > 0) => job.tools = "found")
    /\ [][(pc = "find" /\ pc' # "find")
            => \/ pc' = "spawn" /\ job'.tools = "found"
               \/ pc' \in {"mkdir", "ret"} /\ job'.outcome = "missing"]_vars
    /\ [](job.tools = "missing"
            => /\ job.outcome = "missing"
               /\ "Running" \notin log
               /\ signers = 0
               /\ pc \in {"mkdir", "check", "move", "ret"})
    /\ [](job.outcome = "missing" => job.tools = "missing")

\* C12 witness: the signer runs for a job although an earlier job of the
\* same cycle found no executable
C12_InvokedAfterMissing == pc = "running" /\ signers = 1 /\ missing_before

\* the process has left the loop of run()
Ended == {"aborted", "stopped", "crashed"}

\* C13: per-file errors never abort the loop: for every signing outcome of a
\* file and every routing result, scan_and_process continues with the
\* remaining candidates of the cycle and run() goes on to the next cycle; the
\* loop ends only on an interrupt or an error escaping the scan itself.
C13_PerFileErrorsNeverAbort ==
    /\ [][pc = "ret"
            => /\ job.outcome \in NonSuccess \cup {"success"}
               /\ job.route \in {"released", "moved", "vanished", "move_failed",
                                 "mkdir_failed"}
               /\ pc' = "loop" /\ todo' = Tail(todo)
               /\ exit_code' = NotExited]_vars
    /\ [][CycleEnd => pc' = "idle" /\ exit_code' = NotExited]_vars
    /\ [][(pc \notin Ended /\ pc' \in Ended /\ pc # "start")
            => \/ pc' = "stopped" /\ "Stopped by user" \in log'
               \/ pc' = "crashed" /\ pc = "idle" /\ job = NoJob]_vars
    /\ [](exit_code # NotExited <=> pc \in Ended)

\* C13 witness: the next candidate of the cycle is being examined after a
\* job of the same cycle ended without an executable
C13_ScanContinuesAfterFailedJob ==
    pc = "stable" /\ dispatched # {} /\ missing_before

\* C14 as stated: an interrupt that arrives while a signer invocation is in
\* flight does not stop the loop immediately: the job is routed first and the
\* process stops only at the top of the loop, with a stop message and exit
\* status zero.
C14_InterruptWaitsForRouting ==
    pc = "stopped"
        => /\ abs_ipa_path = None
           /\ "Stopped by user" \in log
           /\ exit_code = 0

\* C14 (amended): an interrupt that arrives while a signer invocation is in
\* flight stops the loop at once: the signer child is killed, the job is not
\* routed (the watcher neither moves nor releases its file), no further
\* candidate is examined, and the process logs a stop message and exits zero.
C14_InterruptStopsAtOnce ==
    /\ [][(pc = "running" /\ pc' \in Ended)
            => /\ pc' = "stopped"
               /\ signers' = 0
               /\ UNCHANGED <<fsVars, processed_files, todo, job, abs_ipa_path>>]_vars
    /\ []((pc = "stopped" /\ abs_ipa_path # None)
            => /\ job.outcome = "none" /\ job.route = "none"
               /\ abs_ipa_path \in processed_files
               /\ ~InProcessed(job.fid) /\ ~InFailed(job.fid)
               /\ SourceKept => InWatch(job.fid))
    /\ [](pc = "stopped" => "Stopped by user" \in log /\ exit_code = 0)
    /\ [][pc = "stopped" => UNCHANGED vars]_vars

\* C14 witness: the process has stopped with a job in flight whose file is
\* still in the watch folder
C14_StoppedWithJobInFlight ==
    /\ pc = "stopped" /\ abs_ipa_path # None
    /\ job.fid # 0 /\ InWatch(job.fid) /\ "Running" \in log

\* an argument with an empty string as its value counts as not given
Given(v) == v # Missing /\ v # Str("")

\* C15: for every configuration option, poll interval included, the
\* effective value is the command-line value when one is given, otherwise
\* the value from the configuration file when the file supplies one,
\* otherwise the built-in default (2.0 seconds for the poll interval).
C15_CommandLineThenFileThenDefault ==
    main_pc \in {"merged", "constructed", "usage_error"}
        => effective = IF Given(cli) THEN cli
                       ELSE IF config # Missing THEN config
                       ELSE BuiltinDefault(option)

\* move_file has returned True for a source that is gone: nothing was
\* moved, no error was logged, and the path is not claimed any more
VanishedResult ==
    /\ pc' = "ret" /\ job'.route = "vanished"
    /\ UNCHANGED fsVars
    /\ abs_ipa_path \notin processed_files'
    /\ \A l \in log' \ log : l \in {"WARN no longer exists", "WARN not found"}

\* C16: if the source file no longer exists when move_file is called with a
\* destination folder (removed out-of-band before or during the move), the
\* call returns success, raises no error, creates nothing at the
\* destination, and removes the path from processed_files.
C16_VanishedSourceIsReleased ==
    /\ [][(pc = "mkdir" /\ ~Exists(abs_ipa_path) /\ pc' = "ret")
            => VanishedResult]_vars
    /\ [][(pc = "check" /\ ~Exists(abs_ipa_path) /\ pc' # "check")
            => VanishedResult]_vars
    /\ [][(pc = "move" /\ ~Exists(abs_ipa_path) /\ abs_file_path = abs_ipa_path
             /\ pc' # "move")
            => VanishedResult]_vars

\* C17: dispatch is strictly sequential: at any time at most one signer
\* process is running, and the next candidate of a cycle is not
\* stability-checked or dispatched until the previous candidate's job has
\* been routed; while a signer process runs on a path, that path is in
\* processed_files and the source file has not yet been moved by the watcher.
C17_StrictlySequentialDispatch ==
    /\ [](signers <= 1 /\ (signers = 1 <=> pc = "running"))
    /\ [](pc \in {"idle", "loop", "stable", "sign"}
            => abs_ipa_path = None /\ job = NoJob /\ dest = None)
    /\ [](pc = "ret" => job.route # "none" /\ job.outcome # "none")
    /\ [][(pc # "stable" /\ pc' = "stable") => pc = "loop"]_vars
    /\ [][(pc # "find" /\ pc' = "find")
            => pc = "sign" /\ abs_ipa_path' = Resolve(Head(todo)) /\ todo' = todo]_vars
    /\ [][(pc \notin {"idle", "start"} /\ todo' # todo) => todo' = Tail(todo)]_vars
    /\ [](pc = "running"
            => /\ abs_ipa_path \in processed_files
               /\ todo # <<>>
               /\ ~InProcessed(job.fid) /\ ~InFailed(job.fid)
               /\ SourceKept => InWatch(job.fid))

\* C17 witness: a signer runs on one candidate while another candidate of the
\* same cycle waits
C17_SignerRunsWhileNextWaits ==
    /\ pc = "running" /\ signers = 1
    /\ Len(todo) > 1 /\ todo[2] # abs_ipa_path
    /\ job.fid # 0 /\ InWatch(job.fid)

\* the positions inside one call of scan_and_process
InCycle == {"loop", "stable", "sign", "find", "spawn", "running", "mkdir",
            "check", "move", "ret"}

\* C18: every scan cycle terminates: given that each signer invocation ends
\* by exiting or by the 1800-second timeout, from the start of a scan the
\* loop eventually finishes all candidates of that cycle and returns to
\* idle, and unless it is interrupted or an error escapes a next scan always
\* follows.
C18_EveryCycleTerminates ==
    /\ []<>(pc \notin InCycle)
    /\ []<>(pc \in InCycle \cup Ended)

\* C18 witness: the loop has handled the last candidate of a cycle in which
\* it ran a job
C18_CycleWithJobFinished == CycleEnd /\ dispatched # {}


\* the name of the source without its last extension; a name has an extension
\* when it is <base> "." <ext> with a base and an ext that are not empty
SourceStem ==
    IF \E k \in 2..(Len(ipa.name) - 1) :
          /\ ipa.name[k] = Dot
          /\ \A j \in (k+1)..Len(ipa.name) : ipa.name[j] # Dot
    THEN SubSeq(ipa.name, 1,
                (CHOOSE k \in 2..(Len(ipa.name) - 1) :
                    /\ ipa.name[k] = Dot
                    /\ \A j \in (k+1)..Len(ipa.name) : ipa.name[j] # Dot) - 1)
    ELSE ipa.name

\* C19: the command handed to the signer is exactly the executable,
\* -headless, -ipa and the absolute source path, -profile and the profile,
\* -output and <output_folder>/<source stem>_signed.ipa, then -args and the
\* extra arguments exactly when these are not empty, then -bundle-id and the
\* id exactly when one is set, in this order
C19_SignerCommand ==
    cmd_pc = "run" =>
        LET n == Len(cmd)
            hasArgs == sign_args # Str("")
            hasId == bundle_id \notin {PyNone, Str("")}
            a == IF hasArgs THEN 2 ELSE 0
        IN  /\ n = 8 + a + (IF hasId THEN 2 ELSE 0)
            /\ cmd[1] = PathStr(sign_tools)
            /\ cmd[2] = <<"-headless">>
            /\ cmd[3] = <<"-ipa">>
            /\ cmd[4] = PathStr(ipa.dir \o <<ipa.name>>)
            /\ cmd[5] = <<"-profile">>
            /\ cmd[6] = profile
            /\ cmd[7] = <<"-output">>
            /\ cmd[8] = PathStr(output_folder \o
                                <<SourceStem \o <<"_signed.ipa">> >>)
            /\ hasArgs => cmd[9] = <<"-args">> /\ cmd[10] = <<sign_args.s>>
            /\ hasId => /\ cmd[9 + a] = <<"-bundle-id">>
                        /\ cmd[10 + a] = <<bundle_id.s>>

\* a command with both optional parts, for a source whose name has two dots
C19_CommandWithArgsAndBundleId ==
    /\ cmd_pc = "run"
    /\ Len(cmd) = 12
    /\ ipa.name = <<"app", Dot, "v2", Dot, "ipa">>
    /\ cmd[8] = <<Sep, "out", Sep, "app", Dot, "v2", "_signed.ipa">>

====
